---- MODULE Spec2Model ----
(***************************************************************************)
(* State machine of the private_transfers Anchor program                   *)
(* (src/anchor/programs/private_transfers/src/lib.rs): the Pool account    *)
(* with its root history ring buffer, the NullifierSet account, the Vault  *)
(* lamports, and the three instructions initialize, deposit and withdraw.  *)
(*                                                                         *)
(* Every instruction runs as one Solana transaction: the handler works on  *)
(* a copy of the accounts and the runtime keeps the copy only when the     *)
(* handler returns Ok (an Err, raised by require! or propagated by `?`,    *)
(* discards it).  Transactions that write the same accounts are            *)
(* serialized by the runtime, so one action of the model is one            *)
(* instruction.  Spec has one client at a time; RaceSpec adds two          *)
(* withdrawals in flight at once, run in either order.  MethodsSpec calls  *)
(* the methods of Pool and NullifierSet directly, EncoderSpec the          *)
(* public-input encoder.                                                   *)
(*                                                                         *)
(* 32-byte values (roots, commitments, nullifier hashes) are opaque to the *)
(* program: they are modelled as the numbers 0..MaxHash, 0 standing for    *)
(* [0u8; 32], the content of freshly allocated account data.               *)
(* The program constants are scaled down so that the capacity limits       *)
(* (ring buffer wrap-around, tree full, nullifier set full) are reached.   *)
(***************************************************************************)
EXTENDS Integers, Sequences, FiniteSets, TLC

VARIABLES
    pool,           \* the Pool account (PDA [b"pool"])
    nullifier_set,  \* the NullifierSet account (PDA [b"nullifiers", pool])
    lamports,       \* lamports of the vault PDA and of the users
    initialized,    \* the pool and nullifier set accounts exist
    recent_roots,   \* new_root of the latest DepositEvents, oldest first
    released,       \* per nullifier hash: vault payments made for it
    last,           \* what the last instruction was and how it ended
    race,           \* two withdrawals in flight at once, and how each ended
    encoder         \* arguments and result of encode_public_inputs

vars == <<pool, nullifier_set, lamports, initialized, recent_roots, released,
          last, race, encoder>>

----------------------------------------------------------------------------
(* Program constants (lib.rs:8-18, 280), scaled.                           *)

\* lib.rs:8   TREE_DEPTH = 10
TREE_DEPTH == 2
\* lib.rs:10  MIN_DEPOSIT_AMOUNT = 1_000_000
MIN_DEPOSIT_AMOUNT == 1
\* lib.rs:11  ROOT_HISTORY_SIZE = 10
ROOT_HISTORY_SIZE == 2
\* lib.rs:280 #[max_len(256)], lib.rs:291 self.nullifiers.len() < 256
NULLIFIER_CAPACITY == 2
\* lib.rs:13  EMPTY_ROOT, a fixed non-zero 32-byte value
EMPTY_ROOT == 1
\* [0u8; 32]: what every root slot holds when the Pool account is allocated
ZERO_BYTES == 0

\* lib.rs:9   MAX_LEAVES = 1 << TREE_DEPTH
MAX_LEAVES == 2 ^ TREE_DEPTH

\* lib.rs:7 and mock_verifier/src/lib.rs:3
SUNSPOT_VERIFIER_ID == "sunspot_verifier"
MOCK_VERIFIER_ID == "mock_verifier"

----------------------------------------------------------------------------
(* Bounds of the model.                                                    *)

\* 32-byte values are 0..MaxHash
MaxHash == 2
\* amounts offered to deposit and withdraw are 0..MaxAmount
MaxAmount == 2
\* lamports the user holds when the pool is created (fees and rent are not
\* modelled)
UserLamports == 2

Bytes32 == 0 .. MaxHash
Amounts == 0 .. MaxAmount

\* Accounts that hold lamports.  The vault is the PDA [b"vault", pool].
VAULT == "vault"
Users == {"alice"}
Accounts == Users \cup {VAULT}
\* What a withdraw supplies for verification: the verifier program account
\* and a proof.  proof_accepted says whether the Sunspot verifier accepts
\* proof || public inputs for the arguments of that withdraw.  The mock
\* verifier accepts everything, so it is offered with rejected proofs only.
\* transfer_accepted says whether the System program and the runtime let
\* the vault -> recipient transfer of that withdraw through when the vault
\* holds the amount (a transfer that leaves an account below the
\* rent-exempt minimum is refused, for one); a refusal matters only once
\* the proof has been accepted.
VerifierInputs ==
    { [program |-> SUNSPOT_VERIFIER_ID, proof_accepted |-> TRUE,
       transfer_accepted |-> TRUE],
      [program |-> SUNSPOT_VERIFIER_ID, proof_accepted |-> TRUE,
       transfer_accepted |-> FALSE],
      [program |-> SUNSPOT_VERIFIER_ID, proof_accepted |-> FALSE,
       transfer_accepted |-> TRUE],
      [program |-> MOCK_VERIFIER_ID,    proof_accepted |-> FALSE,
       transfer_accepted |-> TRUE] }

NoKey == "none"

----------------------------------------------------------------------------
(* Accounts.                                                               *)

RootSlots == 0 .. (ROOT_HISTORY_SIZE - 1)

\* The Pool account as `init` allocates it: all bytes zero.
ZeroPool ==
    [ authority          |-> NoKey,
      next_leaf_index    |-> 0,
      total_deposits     |-> 0,
      current_root_index |-> 0,
      roots              |-> [i \in RootSlots |-> ZERO_BYTES] ]

\* The NullifierSet account as `init` allocates it.
ZeroNullifierSet == [ pool |-> NoKey, nullifiers |-> <<>> ]

\* variant: only the slot written last is looked at
is_known_root_current_only(p, root) == p.roots[p.current_root_index] = root

\* Pool::is_known_root: self.roots.iter().any(|r| r == root)
is_known_root(p, root) == \E i \in RootSlots : p.roots[i] = root

\* variant: a membership test that never finds anything
is_nullifier_used_never(ns, nullifier_hash) == FALSE

\* NullifierSet::is_nullifier_used: self.nullifiers.contains(nullifier_hash)
is_nullifier_used(ns, nullifier_hash) ==
    \E i \in 1 .. Len(ns.nullifiers) : ns.nullifiers[i] = nullifier_hash

\* variant: at capacity the oldest entry makes room for the new one
mark_nullifier_used_evicting(ns, nullifier_hash) ==
    [ err |-> "Ok",
      ns  |-> [ns EXCEPT !.nullifiers =
                 IF Len(@) < NULLIFIER_CAPACITY
                 THEN Append(@, nullifier_hash)
                 ELSE Append(Tail(@), nullifier_hash)] ]

\* variant: a push without the capacity check
mark_nullifier_used_unbounded(ns, nullifier_hash) ==
    [ err |-> "Ok",
      ns  |-> [ns EXCEPT !.nullifiers = Append(@, nullifier_hash)] ]

\* NullifierSet::mark_nullifier_used: Err(NullifierSetFull) at capacity,
\* otherwise push.  No membership test is made here.
mark_nullifier_used(ns, nullifier_hash) ==
    IF ~(Len(ns.nullifiers) < NULLIFIER_CAPACITY)
    THEN [ err |-> "NullifierSetFull", ns |-> ns ]
    ELSE [ err |-> "Ok",
           ns  |-> [ns EXCEPT !.nullifiers = Append(@, nullifier_hash)] ]

\* system_instruction::transfer(from, to, amount) as the System program runs
\* it: fails when `from` holds less than `amount`, otherwise debits `from`
\* and then credits `to` (from = to leaves the balance as it was).
transfer(lam, from, to, amount) ==
    IF lam[from] < amount
    THEN [ err |-> "InsufficientFunds", lamports |-> lam ]
    ELSE LET debited == [lam EXCEPT ![from] = @ - amount]
         IN  [ err |-> "Ok",
               lamports |-> [debited EXCEPT ![to] = @ + amount] ]

\* mock_verifier::verify: always Ok.
mock_verify == "Ok"

\* invoke(Instruction { program_id: verifier_program, data: proof ||
\* public_inputs }): the result of the program that is called.
invoke_verifier(verifier_program, proof_accepted) ==
    IF verifier_program = MOCK_VERIFIER_ID THEN mock_verify
    ELSE IF proof_accepted THEN "Ok" ELSE "VerifierRejected"

\* The client-side root of the tests: a hash of the commitment and the leaf
\* index it is inserted at (SHA-256 there; any fixed function of the two
\* here).
compute_new_root(commitment, leaf_index) ==
    (commitment + leaf_index) % (MaxHash + 1)

----------------------------------------------------------------------------
(* The public-input encoder.  Here 32-byte values are sequences of 32      *)
(* bytes and the result is a sequence of bytes.                            *)

\* variant: the bytes of n in little-endian order
to_le_bytes(n, width) ==
    [i \in 1 .. width |->
        IF i - 1 >= 4 THEN 0 ELSE (n \div (256 ^ (i - 1))) % 256]

\* u32::to_be_bytes / u64::to_be_bytes: the `width` bytes of n, the most
\* significant first.  (Values stay below 2^31, so bytes above the fourth
\* from the right are 0.)
to_be_bytes(n, width) ==
    [i \in 1 .. width |->
        IF width - i >= 4 THEN 0 ELSE (n \div (256 ^ (width - i))) % 256]

\* lib.rs:175
NR_PUBLIC_INPUTS == 4

\* encode_public_inputs (lib.rs:168-192)
encode_public_inputs(root, nullifier_hash, recipient, amount) ==
    LET header == to_be_bytes(NR_PUBLIC_INPUTS, 4) \o to_be_bytes(0, 4)
                    \o to_be_bytes(NR_PUBLIC_INPUTS, 4)
        amount_bytes == [i \in 1 .. 32 |->
                            IF i \in 25 .. 32
                            THEN to_be_bytes(amount, 8)[i - 24] ELSE 0]
    IN  header \o root \o nullifier_hash \o recipient \o amount_bytes

----------------------------------------------------------------------------
(* Outcome of the last instruction.                                        *)

NoArgs ==
    [ depositor |-> NoKey, commitment |-> 0, new_root |-> 0,
      nullifier_hash |-> 0, root |-> 0, recipient |-> NoKey,
      recipient_account |-> NoKey, amount |-> 0,
      verifier_program |-> NoKey, proof_accepted |-> FALSE,
      transfer_accepted |-> FALSE ]

Outcome(op, args, result, verifier_invoked, events) ==
    [ op |-> op, args |-> args, result |-> result,
      verifier_invoked |-> verifier_invoked, events |-> events ]

----------------------------------------------------------------------------
(* Handlers: each returns the result and the accounts as the handler left  *)
(* them when it returned.                                                  *)

Accts(p, ns, lam) == [ pool |-> p, nullifier_set |-> ns, lamports |-> lam ]

\* paid: how many transfers out of the vault (invoke_signed) the handler made.
Ret(result, accts, verifier_invoked, paid, events) ==
    [ result |-> result, accts |-> accts,
      verifier_invoked |-> verifier_invoked, paid |-> paid,
      events |-> events ]

\* initialize (lib.rs:24-37)
initialize(a, authority) ==
    LET p  == [a.pool EXCEPT !.authority = authority,
                             !.next_leaf_index = 0,
                             !.total_deposits = 0,
                             !.current_root_index = 0,
                             !.roots[0] = EMPTY_ROOT]
        ns == [a.nullifier_set EXCEPT !.pool = "pool"]
    IN  Ret("Ok", Accts(p, ns, a.lamports), FALSE, 0, <<>>)

\* variant: accounts that exist are initialized again (init_if_needed)
process_initialize_if_needed(a, exists, authority) ==
    initialize(a, authority)

\* The initialize instruction: Initialize<'info> creates the pool and the
\* nullifier set with `init`, which fails when the account already exists;
\* then the handler.
process_initialize(a, exists, authority) ==
    IF exists
    THEN Ret("AccountAlreadyInUse", a, FALSE, 0, <<>>)
    ELSE initialize(a, authority)

\* variant: the tree is taken to have room for one leaf more
deposit_checks_one_leaf_more(p, amount) ==
    IF ~(p.next_leaf_index < MAX_LEAVES + 1) THEN "TreeFull"
    ELSE IF ~(amount >= MIN_DEPOSIT_AMOUNT) THEN "DepositTooSmall"
    ELSE "Ok"

\* variant: the minimum is taken one lamport too low
deposit_checks_lower_minimum(p, amount) ==
    IF ~(p.next_leaf_index < MAX_LEAVES) THEN "TreeFull"
    ELSE IF ~(amount >= MIN_DEPOSIT_AMOUNT - 1) THEN "DepositTooSmall"
    ELSE "Ok"

\* deposit, the two require! of lib.rs:49-57, in order
deposit_checks(p, amount) ==
    IF ~(p.next_leaf_index < MAX_LEAVES) THEN "TreeFull"
    ELSE IF ~(amount >= MIN_DEPOSIT_AMOUNT) THEN "DepositTooSmall"
    ELSE "Ok"

\* variant: the index advances without wrapping round
record_root_unwrapped(p, new_root) ==
    LET new_root_index == p.current_root_index + 1
    IN  [p EXCEPT !.current_root_index = new_root_index,
                  !.roots = [i \in RootSlots |->
                               IF i = new_root_index THEN new_root ELSE @[i]]]

\* variant: the root is stored without advancing the index
record_root_in_place(p, new_root) ==
    [p EXCEPT !.roots[p.current_root_index] = new_root]

\* deposit, lib.rs:75-77: advance the ring-buffer index and store the root
record_root(p, new_root) ==
    LET new_root_index == (p.current_root_index + 1) % ROOT_HISTORY_SIZE
    IN  [p EXCEPT !.current_root_index = new_root_index,
                  !.roots[new_root_index] = new_root]

\* variant: a leaf index is skipped
count_deposit_skipping_a_leaf(p) ==
    [p EXCEPT !.next_leaf_index = @ + 2, !.total_deposits = @ + 1]

\* variant: total_deposits is left as it was
count_deposit_leaf_only(p) == [p EXCEPT !.next_leaf_index = @ + 1]

\* deposit, lib.rs:86-87
count_deposit(p) ==
    [p EXCEPT !.next_leaf_index = @ + 1, !.total_deposits = @ + 1]

\* deposit (lib.rs:41-91)
deposit(a, depositor, commitment, new_root, amount) ==
    LET c == deposit_checks(a.pool, amount) IN
    IF c # "Ok"
    THEN Ret(c, a, FALSE, 0, <<>>)
    ELSE
    LET t == transfer(a.lamports, depositor, VAULT, amount) IN
    IF t.err # "Ok"
    THEN Ret(t.err, a, FALSE, 0, <<>>)
    ELSE
    LET leaf_index == a.pool.next_leaf_index
        p1 == record_root(a.pool, new_root)
        ev == [ event |-> "DepositEvent", commitment |-> commitment,
                leaf_index |-> leaf_index, new_root |-> new_root ]
        p2 == count_deposit(p1)
    IN  Ret("Ok", Accts(p2, a.nullifier_set, t.lamports), FALSE, 0, <<ev>>)

\* variant: the known-root check made before the nullifier check
withdraw_checks_root_first(a, nullifier_hash, root, recipient, recipient_account, amount) ==
    IF ~is_known_root(a.pool, root)
    THEN "InvalidRoot"
    ELSE IF ~(~is_nullifier_used(a.nullifier_set, nullifier_hash))
    THEN "NullifierUsed"
    ELSE IF ~(recipient_account = recipient)
    THEN "RecipientMismatch"
    ELSE IF ~(a.lamports[VAULT] >= amount)
    THEN "InsufficientVaultBalance"
    ELSE "Ok"

\* variant: the vault balance check made before the recipient check
withdraw_checks_balance_first(a, nullifier_hash, root, recipient, recipient_account, amount) ==
    IF ~(~is_nullifier_used(a.nullifier_set, nullifier_hash))
    THEN "NullifierUsed"
    ELSE IF ~is_known_root(a.pool, root)
    THEN "InvalidRoot"
    ELSE IF ~(a.lamports[VAULT] >= amount)
    THEN "InsufficientVaultBalance"
    ELSE IF ~(recipient_account = recipient)
    THEN "RecipientMismatch"
    ELSE "Ok"

\* withdraw, the four require! of lib.rs:104-123, in order
withdraw_checks(a, nullifier_hash, root, recipient, recipient_account, amount) ==
    IF ~(~is_nullifier_used(a.nullifier_set, nullifier_hash))
    THEN "NullifierUsed"
    ELSE IF ~is_known_root(a.pool, root)
    THEN "InvalidRoot"
    ELSE IF ~(recipient_account = recipient)
    THEN "RecipientMismatch"
    ELSE IF ~(a.lamports[VAULT] >= amount)
    THEN "InsufficientVaultBalance"
    ELSE "Ok"

\* variant: a withdraw that takes the deposit it pays out off the count
withdraw_counting_down(a, verifier_program, proof_accepted, transfer_accepted, nullifier_hash, root, recipient, recipient_account, amount) ==
    LET c == withdraw_checks(a, nullifier_hash, root, recipient,
                             recipient_account, amount) IN
    IF c # "Ok"
    THEN Ret(c, a, FALSE, 0, <<>>)
    ELSE
    LET v == invoke_verifier(verifier_program, proof_accepted) IN
    IF v # "Ok"
    THEN Ret(v, a, TRUE, 0, <<>>)
    ELSE
    LET m == mark_nullifier_used(a.nullifier_set, nullifier_hash) IN
    IF m.err # "Ok"
    THEN Ret(m.err, Accts(a.pool, m.ns, a.lamports), TRUE, 0, <<>>)
    ELSE
    LET t == IF transfer_accepted
             THEN transfer(a.lamports, VAULT, recipient_account, amount)
             ELSE [ err |-> "TransferFailed", lamports |-> a.lamports ] IN
    IF t.err # "Ok"
    THEN Ret(t.err, Accts(a.pool, m.ns, a.lamports), TRUE, 0, <<>>)
    ELSE
    LET ev == [ event |-> "WithdrawEvent", nullifier_hash |-> nullifier_hash,
                recipient |-> recipient_account ]
    IN  Ret("Ok", Accts([a.pool EXCEPT !.total_deposits = @ - 1], m.ns,
                      t.lamports), TRUE, 1, <<ev>>)

\* withdraw (lib.rs:93-165).  proof_accepted is the verdict of the Sunspot
\* verifier on proof || encode_public_inputs(root, nullifier_hash, recipient,
\* amount), transfer_accepted that of the System program and the runtime
\* on the transfer out of the vault.  The accounts returned are the ones
\* the handler had written when it returned: after a failed transfer the
\* nullifier is in them.
withdraw(a, verifier_program, proof_accepted, transfer_accepted, nullifier_hash, root, recipient, recipient_account, amount) ==
    LET c == withdraw_checks(a, nullifier_hash, root, recipient,
                             recipient_account, amount) IN
    IF c # "Ok"
    THEN Ret(c, a, FALSE, 0, <<>>)
    ELSE
    LET v == invoke_verifier(verifier_program, proof_accepted) IN
    IF v # "Ok"
    THEN Ret(v, a, TRUE, 0, <<>>)
    ELSE
    LET m == mark_nullifier_used(a.nullifier_set, nullifier_hash) IN
    IF m.err # "Ok"
    THEN Ret(m.err, Accts(a.pool, m.ns, a.lamports), TRUE, 0, <<>>)
    ELSE
    LET t == IF transfer_accepted
             THEN transfer(a.lamports, VAULT, recipient_account, amount)
             ELSE [ err |-> "TransferFailed", lamports |-> a.lamports ] IN
    IF t.err # "Ok"
    THEN Ret(t.err, Accts(a.pool, m.ns, a.lamports), TRUE, 0, <<>>)
    ELSE
    LET ev == [ event |-> "WithdrawEvent", nullifier_hash |-> nullifier_hash,
                recipient |-> recipient_account ]
    IN  Ret("Ok", Accts(a.pool, m.ns, t.lamports), TRUE, 1, <<ev>>)

\* variant: any program is taken for the verifier
verifier_constraint_any(verifier_program) == TRUE

\* Withdraw<'info>: the constraint on verifier_program, checked when the
\* accounts are loaded, before the handler runs.
verifier_constraint(verifier_program) ==
    verifier_program = SUNSPOT_VERIFIER_ID

\* The withdraw instruction on an initialized pool: account validation, then
\* the handler.  w holds the arguments and the accounts supplied.
process_withdraw(a, w) ==
    IF ~verifier_constraint(w.verifier_program)
    THEN Ret("InvalidVerifier", a, FALSE, 0, <<>>)
    ELSE withdraw(a, w.verifier_program, w.proof_accepted,
                  w.transfer_accepted, w.nullifier_hash, w.root, w.recipient,
                  w.recipient_account, w.amount)

----------------------------------------------------------------------------
(* The instructions a client can send.                                     *)

DepositInputs ==
    { [NoArgs EXCEPT !.depositor = depositor, !.commitment = commitment,
                     !.new_root = new_root, !.amount = amount] :
        depositor \in Users, commitment \in Bytes32, new_root \in Bytes32,
        amount \in Amounts }

\* recipient is the instruction argument, recipient_account the account
\* supplied as Withdraw::recipient: an UncheckedAccount, so any account,
\* the vault PDA included.
WithdrawInputs ==
    { [NoArgs EXCEPT !.nullifier_hash = nullifier_hash, !.root = root,
                     !.recipient = recipient,
                     !.recipient_account = recipient_account,
                     !.amount = amount,
                     !.verifier_program = verifier.program,
                     !.proof_accepted = verifier.proof_accepted,
                     !.transfer_accepted = verifier.transfer_accepted] :
        nullifier_hash \in Bytes32, root \in Bytes32, recipient \in Accounts,
        recipient_account \in Accounts, amount \in Amounts,
        verifier \in VerifierInputs }

----------------------------------------------------------------------------
(* The runtime: a transaction's account writes are kept only on Ok.        *)

Current == Accts(pool, nullifier_set, lamports)

\* variant: a runtime that keeps what a failed handler had written
Commit_keep_writes(r) ==
    /\ pool'          = r.accts.pool
    /\ nullifier_set' = r.accts.nullifier_set
    /\ lamports'      = r.accts.lamports

Commit(r) ==
    /\ pool'          = IF r.result = "Ok" THEN r.accts.pool ELSE pool
    /\ nullifier_set' = IF r.result = "Ok" THEN r.accts.nullifier_set
                                           ELSE nullifier_set
    /\ lamports'      = IF r.result = "Ok" THEN r.accts.lamports ELSE lamports

Idle == Outcome("none", NoArgs, "Ok", FALSE, <<>>)

\* encode_public_inputs has not been called.
NoEncoding ==
    [ root |-> <<>>, nullifier_hash |-> <<>>, recipient |-> <<>>,
      amount |-> 0, calls |-> 0, output |-> <<>> ]

\* No pair of withdrawals is in flight.
NoRace == [ txs |-> <<>>, ran |-> <<>>, vault_before |-> 0 ]

Init ==
    /\ pool = ZeroPool
    /\ nullifier_set = ZeroNullifierSet
    /\ lamports = [acc \in Accounts |->
                       IF acc \in Users THEN UserLamports ELSE 0]
    /\ initialized = FALSE
    /\ recent_roots = <<>>
    /\ released = [n \in Bytes32 |-> 0]
    /\ last = Idle
    /\ race = NoRace
    /\ encoder = NoEncoding

\* The initialize instruction.  Initialize<'info> creates the pool and the
\* nullifier set with `init`, which fails when the account already exists.
Initialize ==
    /\ last = Idle /\ race = NoRace /\ race' = race /\ encoder' = encoder
    /\ \E authority \in Users :
        LET args == [NoArgs EXCEPT !.depositor = authority]
            r == process_initialize(Current, initialized, authority)
        IN  /\ Commit(r)
            /\ initialized' = (initialized \/ r.result = "Ok")
            /\ recent_roots' = recent_roots
            /\ released' = released
            /\ last' = Outcome("initialize", args, r.result, FALSE, r.events)

\* What an indexer that follows the DepositEvents holds of the root
\* history: the new_root of each of the last ROOT_HISTORY_SIZE + 1 events,
\* oldest first.
Observe(recent, ev) ==
    LET all == Append(recent, ev.new_root)
    IN  IF Len(all) > ROOT_HISTORY_SIZE + 1 THEN Tail(all) ELSE all

\* The deposit instruction.  Deposit<'info> loads Account<Pool>, which fails
\* on an account that was never initialized.
Deposit ==
    /\ last = Idle /\ race = NoRace /\ race' = race /\ encoder' = encoder
    /\ \E d \in DepositInputs :
        LET r == IF ~initialized
                 THEN Ret("AccountNotInitialized", Current, FALSE, 0, <<>>)
                 ELSE deposit(Current, d.depositor, d.commitment, d.new_root,
                              d.amount)
        IN  /\ Commit(r)
            /\ initialized' = initialized
            /\ recent_roots' = IF r.result = "Ok"
                               THEN Observe(recent_roots, r.events[1])
                               ELSE recent_roots
            /\ released' = released
            /\ last' = Outcome("deposit", d, r.result, FALSE, r.events)

\* What the withdraw instruction w does on the current accounts.
\* Withdraw<'info> loads Account<Pool> and Account<NullifierSet>, which
\* fails on accounts that were never initialized.
WithdrawResult(w) ==
    IF ~initialized
    THEN Ret("AccountNotInitialized", Current, FALSE, 0, <<>>)
    ELSE process_withdraw(Current, w)

\* The runtime runs the withdraw instruction w and keeps or discards what
\* it wrote.
RunWithdraw(w) ==
    LET r == WithdrawResult(w)
    IN  /\ Commit(r)
        /\ initialized' = initialized
        /\ recent_roots' = recent_roots
        /\ released' = IF r.result = "Ok"
                       THEN [released EXCEPT ![w.nullifier_hash] = @ + r.paid]
                       ELSE released

\* The withdraw instruction.
Withdraw ==
    /\ last = Idle /\ race = NoRace /\ race' = race /\ encoder' = encoder
    /\ \E w \in WithdrawInputs :
        LET r == WithdrawResult(w)
        IN  /\ RunWithdraw(w)
            /\ last' = Outcome("withdraw", w, r.result,
                               r.verifier_invoked, r.events)

\* The client has read the outcome of its transaction (logs, events, error)
\* and may send the next one.
Confirm ==
    /\ last # Idle
    /\ last' = Idle
    /\ UNCHANGED <<pool, nullifier_set, lamports, initialized, recent_roots,
                   released, race, encoder>>

Next == Initialize \/ Deposit \/ Withdraw \/ Confirm

Spec == Init /\ [][Next]_vars

----------------------------------------------------------------------------
(* Two withdrawals in flight at once.  Both write the Pool, NullifierSet    *)
(* and vault accounts, so the runtime runs them one after the other, in     *)
(* either order.                                                            *)

\* the withdrawals that would succeed if run alone on the current accounts
WouldSucceed ==
    { w \in WithdrawInputs : initialized /\ WithdrawResult(w).result = "Ok" }

\* Two clients send withdrawals that present the same nullifier_hash.
SubmitRace ==
    /\ last = Idle /\ race = NoRace
    /\ \E w1 \in WouldSucceed, w2 \in WouldSucceed :
        /\ w1.nullifier_hash = w2.nullifier_hash
        /\ race' = [ txs |-> <<w1, w2>>, ran |-> <<>>,
                     vault_before |-> lamports[VAULT] ]
    /\ UNCHANGED <<pool, nullifier_set, lamports, initialized, recent_roots,
                   released, last, encoder>>

\* The runtime runs one of the withdrawals in flight that has not run yet.
RunRaced ==
    /\ race # NoRace
    /\ \E i \in DOMAIN race.txs :
        /\ \A j \in DOMAIN race.ran : race.ran[j].tx # i
        /\ LET r == WithdrawResult(race.txs[i])
           IN  /\ RunWithdraw(race.txs[i])
               /\ race' = [race EXCEPT !.ran =
                              Append(@, [tx |-> i, result |-> r.result])]
    /\ last' = last /\ encoder' = encoder

\* Both clients have read their outcomes.
ConfirmRace ==
    /\ race # NoRace /\ Len(race.ran) = Len(race.txs)
    /\ race' = NoRace
    /\ UNCHANGED <<pool, nullifier_set, lamports, initialized, recent_roots,
                   released, last, encoder>>

RaceNext == Next \/ SubmitRace \/ RunRaced \/ ConfirmRace

RaceSpec == Init /\ [][RaceNext]_vars

----------------------------------------------------------------------------
(* The methods of Pool and NullifierSet on their own: called directly, in   *)
(* any order and with any argument, on accounts as the program can have     *)
(* left them.                                                               *)

\* the nullifier sequences without repetition, up to capacity
NullifierSequences ==
    { q \in UNION { [1 .. k -> Bytes32] : k \in 0 .. NULLIFIER_CAPACITY } :
        \A i, j \in DOMAIN q : q[i] = q[j] => i = j }

\* the pools that ROOT_HISTORY_SIZE deposits leave
FilledPools ==
    { [ authority          |-> "alice",
        next_leaf_index    |-> ROOT_HISTORY_SIZE,
        total_deposits     |-> ROOT_HISTORY_SIZE,
        current_root_index |-> 0,
        roots              |-> roots ] : roots \in [RootSlots -> Bytes32] }

MethodsInit ==
    /\ pool \in FilledPools
    /\ nullifier_set \in { [ pool |-> "pool", nullifiers |-> q ] :
                              q \in NullifierSequences }
    /\ lamports = [acc \in Accounts |-> 0]
    /\ initialized = TRUE
    /\ recent_roots = <<>>
    /\ released = [n \in Bytes32 |-> 0]
    /\ last = Idle
    /\ race = NoRace
    /\ encoder = NoEncoding

\* nullifier_set.mark_nullifier_used(nullifier_hash)
MarkNullifierUsed ==
    /\ \E nullifier_hash \in Bytes32 :
        LET m == mark_nullifier_used(nullifier_set, nullifier_hash)
        IN  /\ nullifier_set' = m.ns
            /\ last' = Outcome("mark_nullifier_used",
                               [NoArgs EXCEPT !.nullifier_hash = nullifier_hash],
                               m.err, FALSE, <<>>)
    /\ UNCHANGED <<pool, lamports, initialized, recent_roots, released, race,
                   encoder>>

\* nullifier_set.is_nullifier_used(&nullifier_hash)
IsNullifierUsed ==
    /\ \E nullifier_hash \in Bytes32 :
        last' = Outcome("is_nullifier_used",
                        [NoArgs EXCEPT !.nullifier_hash = nullifier_hash],
                        IF is_nullifier_used(nullifier_set, nullifier_hash)
                        THEN "true" ELSE "false",
                        FALSE, <<>>)
    /\ UNCHANGED <<pool, nullifier_set, lamports, initialized, recent_roots,
                   released, race, encoder>>

\* pool.is_known_root(&root)
IsKnownRoot ==
    /\ \E root \in Bytes32 :
        last' = Outcome("is_known_root", [NoArgs EXCEPT !.root = root],
                        IF is_known_root(pool, root) THEN "true" ELSE "false",
                        FALSE, <<>>)
    /\ UNCHANGED <<pool, nullifier_set, lamports, initialized, recent_roots,
                   released, race, encoder>>

MethodsNext == MarkNullifierUsed \/ IsNullifierUsed \/ IsKnownRoot

MethodsSpec == MethodsInit /\ [][MethodsNext]_vars

----------------------------------------------------------------------------
(* encode_public_inputs on its own: called, and called again, on arguments  *)
(* drawn when the behaviour starts.                                         *)

\* 32-byte arrays are told apart by a seed 0..MaxSeed
MaxSeed == 2

\* arrays whose bytes all differ, one of them running through 255 -> 0
ByteArrays32 ==
    { [i \in 1 .. 32 |-> (120 * seed + i) % 256] : seed \in 0 .. MaxSeed }

\* amounts with 1, 2, 3 and 4 significant bytes
EncoderAmounts == { 0, 1, 255, 256, 66051, 1000000, 2147483647 }

EncoderInit ==
    /\ Init!1 /\ Init!2 /\ Init!3 /\ Init!4 /\ Init!5 /\ Init!6
    /\ Init!7 /\ Init!8
    /\ encoder \in { [ root |-> root, nullifier_hash |-> nullifier_hash,
                        recipient |-> recipient, amount |-> amount,
                        calls |-> 0, output |-> <<>> ] :
                        root \in ByteArrays32, nullifier_hash \in ByteArrays32,
                        recipient \in ByteArrays32, amount \in EncoderAmounts }

\* encode_public_inputs(&root, &nullifier_hash, &recipient, amount)
Encode ==
    /\ encoder.calls < 2
    /\ encoder' = [encoder EXCEPT
                     !.calls = @ + 1,
                     !.output = encode_public_inputs(encoder.root,
                                    encoder.nullifier_hash, encoder.recipient,
                                    encoder.amount)]
    /\ UNCHANGED <<pool, nullifier_set, lamports, initialized, recent_roots,
                   released, last, race>>

EncoderNext == Encode

EncoderSpec == EncoderInit /\ [][EncoderNext]_vars

----------------------------------------------------------------------------
(* Vocabulary of the properties.  Unprimed variables are the state an      *)
(* instruction found, primed ones the state it left; last' tells which     *)
(* instruction the step was.                                               *)

NullifierValues ==
    { nullifier_set.nullifiers[i] : i \in DOMAIN nullifier_set.nullifiers }

Occurrences(n) ==
    Cardinality({ i \in DOMAIN nullifier_set.nullifiers :
                    nullifier_set.nullifiers[i] = n })

KnownRoots == { pool.roots[i] : i \in RootSlots }

Range(seq) == { seq[i] : i \in DOMAIN seq }

\* the new_root of the last ROOT_HISTORY_SIZE DepositEvents
LastRoots ==
    { recent_roots[i] :
        i \in { j \in DOMAIN recent_roots :
                  j > Len(recent_roots) - ROOT_HISTORY_SIZE } }

\* the step runs the deposit handler
DepositRuns == last = Idle /\ last'.op = "deposit" /\ initialized

\* the step runs the withdraw handler (the accounts passed validation)
WithdrawRuns ==
    /\ last = Idle /\ last'.op = "withdraw" /\ initialized
    /\ last'.args.verifier_program = SUNSPOT_VERIFIER_ID

AccountsUnchanged ==
    UNCHANGED <<pool, nullifier_set, lamports, initialized, recent_roots,
                released>>

\* the four local checks of withdraw, on the state the instruction found
NullifierUnused(w) == w.nullifier_hash \notin NullifierValues
RootKnown(w) == w.root \in KnownRoots
RecipientMatches(w) == w.recipient_account = w.recipient
VaultCovers(w) == lamports[VAULT] >= w.amount

----------------------------------------------------------------------------
----------------------------------------------------------------------------
RaceOver == race # NoRace /\ Len(race.ran) = 2

\* C2: of two concurrent withdrawals presenting the same nullifier_hash,
\* each of which would succeed alone, in every serialization the one that
\* runs first succeeds, the other fails with NullifierUsed, and the vault
\* balance has decreased by the amount exactly once.
C2_RaceOneWinnerOneDebit ==
    RaceOver =>
        /\ race.ran[1].result = "Ok"
        /\ race.ran[2].result = "NullifierUsed"
        /\ lamports[VAULT] =
               race.vault_before - race.txs[race.ran[1].tx].amount

\* C2 without its last clause: one winner, and NullifierUsed for the other.
C2_RaceOneWinner ==
    RaceOver =>
        /\ race.ran[1].result = "Ok"
        /\ race.ran[2].result = "NullifierUsed"
        /\ released[race.txs[1].nullifier_hash] = 1

----------------------------------------------------------------------------
\* C3: a withdraw whose nullifier_hash is already in the nullifier set
\* fails with NullifierUsed whatever its other arguments are, without
\* calling the verifier, and changes no state.
C3_UsedNullifierAlwaysRejected ==
    [][ (WithdrawRuns /\ ~NullifierUnused(last'.args))
            => /\ last'.result = "NullifierUsed"
               /\ ~last'.verifier_invoked
               /\ last'.events = <<>>
               /\ AccountsUnchanged ]_vars

\* NullifierUsed was the answer to a withdraw that had everything else in
\* order: a known root, a matching recipient, enough in the vault and a
\* proof the verifier would accept
C3_Witness ==
    /\ last.op = "withdraw" /\ last.result = "NullifierUsed"
    /\ last.args.verifier_program = SUNSPOT_VERIFIER_ID
    /\ last.args.proof_accepted
    /\ RootKnown(last.args) /\ RecipientMatches(last.args)
    /\ last.args.amount > 0 /\ VaultCovers(last.args)

----------------------------------------------------------------------------
\* C4: a withdraw with an unused nullifier_hash whose root is neither the
\* empty-tree root nor one of the last ROOT_HISTORY_SIZE roots recorded by
\* successful deposits fails with InvalidRoot, whatever the verifier would
\* say about the proof.
C4_UnrecordedRootRejected ==
    [][ ( /\ WithdrawRuns
          /\ NullifierUnused(last'.args)
          /\ last'.args.root # EMPTY_ROOT
          /\ last'.args.root \notin LastRoots )
            => last'.result = "InvalidRoot" ]_vars

----------------------------------------------------------------------------
\* the deposit that has just succeeded recorded a root that is not the one
\* its commitment gives at the leaf index it took
IncorrectRootDeposited ==
    /\ last.op = "deposit" /\ last.result = "Ok"
    /\ last.args.new_root #
           compute_new_root(last.args.commitment, last.events[1].leaf_index)

----------------------------------------------------------------------------
\* C6: withdraw makes its checks in the order nullifier unused, root known,
\* recipient matches, vault balance sufficient, and fails with the error of
\* the first that does not hold, changing nothing; the verifier is invoked
\* exactly when all four hold.
C6_ChecksInOrder ==
    [][ WithdrawRuns =>
          LET w   == last'.args
              res == last'.result
              nu  == NullifierUnused(w)
              rk  == RootKnown(w)
              rm  == RecipientMatches(w)
              vc  == VaultCovers(w)
          IN  /\ (res = "NullifierUsed") <=> ~nu
              /\ (res = "InvalidRoot") <=> (nu /\ ~rk)
              /\ (res = "RecipientMismatch") <=> (nu /\ rk /\ ~rm)
              /\ (res = "InsufficientVaultBalance")
                    <=> (nu /\ rk /\ rm /\ ~vc)
              /\ last'.verifier_invoked <=> (nu /\ rk /\ rm /\ vc)
              /\ ~(nu /\ rk /\ rm /\ vc) => AccountsUnchanged ]_vars

\* a withdraw to an account other than the recipient argument was refused
\* with RecipientMismatch, the verifier not called, although the proof
\* would have been accepted and the vault could not have paid either
C6_Witness ==
    /\ last.op = "withdraw" /\ last.result = "RecipientMismatch"
    /\ last.args.verifier_program = SUNSPOT_VERIFIER_ID
    /\ last.args.proof_accepted /\ ~last.verifier_invoked
    /\ NullifierUnused(last.args) /\ RootKnown(last.args)
    /\ ~RecipientMatches(last.args) /\ ~VaultCovers(last.args)
    /\ nullifier_set.nullifiers # <<>>

----------------------------------------------------------------------------
\* C7: a successful deposit adds 1 to next_leaf_index and to total_deposits,
\* moves current_root_index to (current_root_index + 1) mod
\* ROOT_HISTORY_SIZE and stores new_root in that slot, so that new_root is
\* known at once, and moves amount from the depositor to the vault; a
\* deposit with room in the tree, amount >= MIN_DEPOSIT_AMOUNT and a
\* depositor who holds amount succeeds.
C7_DepositEffects ==
    [][ DepositRuns =>
          LET d == last'.args
              slot == (pool.current_root_index + 1) % ROOT_HISTORY_SIZE
          IN  /\ last'.result = "Ok" =>
                    /\ pool'.next_leaf_index = pool.next_leaf_index + 1
                    /\ pool'.total_deposits = pool.total_deposits + 1
                    /\ pool'.current_root_index = slot
                    /\ pool'.roots = [pool.roots EXCEPT ![slot] = d.new_root]
                    /\ pool'.authority = pool.authority
                    /\ d.new_root \in KnownRoots'
                    /\ lamports' = [lamports EXCEPT
                                       ![d.depositor] = @ - d.amount,
                                       ![VAULT] = @ + d.amount]
                    /\ nullifier_set' = nullifier_set
              /\ ( /\ pool.next_leaf_index < MAX_LEAVES
                   /\ d.amount >= MIN_DEPOSIT_AMOUNT
                   /\ lamports[d.depositor] >= d.amount )
                    => last'.result = "Ok" ]_vars

\* a deposit has succeeded whose root went into slot 0 again, the index
\* having wrapped round
C7_Witness ==
    /\ last.op = "deposit" /\ last.result = "Ok" /\ last.args.amount > 0
    /\ pool.next_leaf_index = ROOT_HISTORY_SIZE
    /\ pool.total_deposits = ROOT_HISTORY_SIZE
    /\ pool.current_root_index = 0
    /\ pool.roots[0] = last.args.new_root
    /\ pool.roots[0] # EMPTY_ROOT
    /\ lamports[VAULT] = ROOT_HISTORY_SIZE

----------------------------------------------------------------------------
\* C8 (as stated): a deposit with amount < MIN_DEPOSIT_AMOUNT always fails
\* with DepositTooSmall and changes no state.
C8_SmallDepositTooSmall ==
    [][ (DepositRuns /\ last'.args.amount < MIN_DEPOSIT_AMOUNT)
            => (last'.result = "DepositTooSmall" /\ AccountsUnchanged) ]_vars

\* C8 (amended): a deposit with amount < MIN_DEPOSIT_AMOUNT always fails
\* and changes no state; the error is DepositTooSmall while the tree has
\* room and TreeFull once next_leaf_index has reached MAX_LEAVES.
C8_SmallDepositRejected ==
    [][ (DepositRuns /\ last'.args.amount < MIN_DEPOSIT_AMOUNT)
            => /\ last'.result = IF pool.next_leaf_index < MAX_LEAVES
                                 THEN "DepositTooSmall" ELSE "TreeFull"
               /\ last'.events = <<>>
               /\ AccountsUnchanged ]_vars

\* a deposit below the minimum was refused with TreeFull
C8_Witness ==
    /\ last.op = "deposit" /\ last.args.amount < MIN_DEPOSIT_AMOUNT
    /\ last.result = "TreeFull"
    /\ pool.next_leaf_index = MAX_LEAVES

----------------------------------------------------------------------------
\* C9: once ROOT_HISTORY_SIZE or more deposits have succeeded on a pool, the
\* known roots are exactly the roots of the last ROOT_HISTORY_SIZE deposits;
\* the root of the deposit made ROOT_HISTORY_SIZE + 1 deposits ago, when
\* none of the later ones repeats it, is not known; and a root that is not
\* known becomes known only by a successful deposit that submits it.
C9_KnownRootsAreLastRoots ==
    [][ /\ pool'.next_leaf_index >= ROOT_HISTORY_SIZE
            => KnownRoots' = LastRoots'
        /\ ( /\ Len(recent_roots') = ROOT_HISTORY_SIZE + 1
             /\ recent_roots'[1] \notin LastRoots' )
            => recent_roots'[1] \notin KnownRoots'
        /\ \A r \in Bytes32 :
              (initialized /\ r \notin KnownRoots /\ r \in KnownRoots')
                => /\ last'.op = "deposit" /\ last'.result = "Ok"
                   /\ last'.args.new_root = r ]_vars

\* exactly ROOT_HISTORY_SIZE + 1 deposits with pairwise distinct roots have
\* succeeded: the root of the first is not known, the later ones are
C9_Witness ==
    /\ pool.next_leaf_index = ROOT_HISTORY_SIZE + 1
    /\ Len(recent_roots) = ROOT_HISTORY_SIZE + 1
    /\ Cardinality(Range(recent_roots)) = ROOT_HISTORY_SIZE + 1
    /\ recent_roots[1] \notin KnownRoots
    /\ \A i \in 2 .. ROOT_HISTORY_SIZE + 1 : recent_roots[i] \in KnownRoots

----------------------------------------------------------------------------
\* C10: a withdraw succeeds when its nullifier_hash is unused, its root is
\* known, the destination account is the recipient, the vault holds amount,
\* the verifier accepts the proof and the nullifier set is below capacity;
\* on success nullifier_hash is appended to the nullifier set, the vault
\* balance goes down by amount, the recipient's balance goes up by amount,
\* and one WithdrawEvent with nullifier_hash and recipient is emitted.
C10_WithdrawSucceedsAndPays ==
    [][ WithdrawRuns =>
          LET w == last'.args
          IN  /\ ( /\ NullifierUnused(w) /\ RootKnown(w)
                   /\ RecipientMatches(w) /\ VaultCovers(w)
                   /\ w.proof_accepted /\ w.transfer_accepted
                   /\ Len(nullifier_set.nullifiers) < NULLIFIER_CAPACITY )
                    => last'.result = "Ok"
              /\ last'.result = "Ok" =>
                    /\ nullifier_set'.nullifiers =
                           Append(nullifier_set.nullifiers, w.nullifier_hash)
                    /\ lamports'[VAULT] = lamports[VAULT] - w.amount
                    /\ lamports'[w.recipient] =
                           lamports[w.recipient] + w.amount
                    /\ last'.events =
                           << [ event |-> "WithdrawEvent",
                                nullifier_hash |-> w.nullifier_hash,
                                recipient |-> w.recipient ] >> ]_vars

----------------------------------------------------------------------------
\* the step runs a deposit or a withdraw on the initialized pool
OperationRuns ==
    last = Idle /\ initialized /\ last'.op \in {"deposit", "withdraw"}

\* C11: a deposit or withdraw that fails leaves all state unchanged,
\* whichever step fails: a local check, the verifier, NullifierSetFull at
\* the marking step, or the transfer after the nullifier was marked; a
\* withdraw that fails after mark_nullifier_used leaves no nullifier
\* behind.
C11_FailureChangesNothing ==
    [][ (OperationRuns /\ last'.result # "Ok")
            => /\ AccountsUnchanged
               /\ last'.events = <<>> ]_vars

\* a withdraw has failed at the transfer, after the verifier had accepted
\* the proof and the nullifier had been marked, and the nullifier is not in
\* the set
C11_Witness ==
    /\ last.op = "withdraw" /\ last.result = "TransferFailed"
    /\ last.verifier_invoked /\ last.args.proof_accepted
    /\ last.args.amount > 0 /\ VaultCovers(last.args)
    /\ NullifierUnused(last.args)
    /\ released[last.args.nullifier_hash] = 0

----------------------------------------------------------------------------
\* C12: the nullifier set itself enforces single use: mark_nullifier_used
\* called with a value that is already in the set fails and does not append
\* it a second time, whatever the caller has checked.
C12_MarkTwiceFails ==
    [][ ( /\ last'.op = "mark_nullifier_used"
          /\ ~NullifierUnused(last'.args) )
            => /\ last'.result # "Ok"
               /\ nullifier_set' = nullifier_set ]_vars

----------------------------------------------------------------------------
IsPrefix(p, q) ==
    /\ Len(p) <= Len(q)
    /\ \A i \in DOMAIN p : p[i] = q[i]

\* C13: the nullifier sequence is append-only, free of duplicates and
\* within capacity: every operation leaves the previous sequence as a
\* prefix of the new one, no value occurs twice, and the length never
\* exceeds the capacity.
C13_NullifiersAppendOnly ==
    [][ /\ IsPrefix(nullifier_set.nullifiers, nullifier_set'.nullifiers)
        /\ \A i, j \in DOMAIN nullifier_set'.nullifiers :
              nullifier_set'.nullifiers[i] = nullifier_set'.nullifiers[j]
                => i = j
        /\ Len(nullifier_set'.nullifiers) <= NULLIFIER_CAPACITY ]_vars

\* a withdraw has just appended the nullifier that fills the set
C13_Witness ==
    /\ last.op = "withdraw" /\ last.result = "Ok"
    /\ Len(nullifier_set.nullifiers) = NULLIFIER_CAPACITY
    /\ nullifier_set.nullifiers[NULLIFIER_CAPACITY] = last.args.nullifier_hash
    /\ nullifier_set.nullifiers[1] # last.args.nullifier_hash

----------------------------------------------------------------------------
\* C14: next_leaf_index never exceeds MAX_LEAVES: a deposit attempted when
\* next_leaf_index = MAX_LEAVES fails with TreeFull and changes no state, so
\* at most MAX_LEAVES deposits ever succeed on one pool.
C14_TreeNeverOverfull ==
    [][ /\ pool'.next_leaf_index <= MAX_LEAVES
        /\ pool'.total_deposits <= MAX_LEAVES
        /\ (DepositRuns /\ pool.next_leaf_index = MAX_LEAVES)
              => /\ last'.result = "TreeFull"
                 /\ last'.events = <<>>
                 /\ AccountsUnchanged ]_vars

\* a deposit that had the minimum amount and a depositor who held it was
\* refused with TreeFull after MAX_LEAVES deposits had succeeded
C14_Witness ==
    /\ last.op = "deposit" /\ last.result = "TreeFull"
    /\ last.args.amount >= MIN_DEPOSIT_AMOUNT
    /\ lamports[last.args.depositor] >= last.args.amount
    /\ pool.next_leaf_index = MAX_LEAVES
    /\ pool.total_deposits = MAX_LEAVES

----------------------------------------------------------------------------
\* the number that 8 bytes, the most significant first, stand for
FromBigEndian(bytes) ==
    LET value[k \in 0 .. Len(bytes)] ==
            IF k = 0 THEN 0 ELSE value[k - 1] * 256 + bytes[k]
    IN  value[Len(bytes)]

\* C15: encode_public_inputs returns exactly 140 bytes: big-endian u32 4,
\* big-endian u32 0, big-endian u32 4, then root, nullifier_hash and the
\* recipient's bytes (32 bytes each), then the amount as 24 zero bytes
\* followed by its 8 bytes in big-endian order; encoding the same arguments
\* again gives the same bytes.
C15_EncodingLayout ==
    [][ encoder'.calls > 0 =>
          LET out == encoder'.output
          IN  /\ Len(out) = 140
              /\ SubSeq(out, 1, 4) = <<0, 0, 0, 4>>
              /\ SubSeq(out, 5, 8) = <<0, 0, 0, 0>>
              /\ SubSeq(out, 9, 12) = <<0, 0, 0, 4>>
              /\ SubSeq(out, 13, 44) = encoder'.root
              /\ SubSeq(out, 45, 76) = encoder'.nullifier_hash
              /\ SubSeq(out, 77, 108) = encoder'.recipient
              /\ \A i \in 109 .. 132 : out[i] = 0
              /\ \A i \in 133 .. 140 : out[i] \in 0 .. 255
              /\ FromBigEndian(SubSeq(out, 133, 140)) = encoder'.amount
              /\ encoder.calls > 0 => out = encoder.output ]_vars

\* three different arrays and an amount of three significant bytes have
\* been encoded twice
C15_Witness ==
    /\ encoder.calls = 2
    /\ encoder.root # encoder.nullifier_hash
    /\ encoder.root # encoder.recipient
    /\ encoder.nullifier_hash # encoder.recipient
    /\ encoder.amount = 66051
    /\ SubSeq(encoder.output, 136, 140) = <<0, 0, 1, 2, 3>>

----------------------------------------------------------------------------
\* C16: the DepositEvent of a successful deposit carries the commitment and
\* new_root submitted and, as leaf index, next_leaf_index as it was before
\* the increment; next_leaf_index moves only then, and by 1, so that the
\* leaf indices emitted are 0, 1, 2, ... without gap or repeat; a failed
\* deposit emits nothing and takes no leaf index.
C16_DepositEventLeafIndex ==
    [][ /\ (last = Idle /\ last'.op = "deposit") =>
              IF last'.result = "Ok"
              THEN /\ last'.events =
                        << [ event      |-> "DepositEvent",
                             commitment |-> last'.args.commitment,
                             leaf_index |-> pool.next_leaf_index,
                             new_root   |-> last'.args.new_root ] >>
                   /\ pool'.next_leaf_index = pool.next_leaf_index + 1
              ELSE /\ last'.events = <<>>
                   /\ pool'.next_leaf_index = pool.next_leaf_index
        /\ pool'.next_leaf_index # pool.next_leaf_index
              => last'.op = "deposit" /\ last'.result = "Ok"
        /\ (\E i \in DOMAIN last'.events :
                last'.events[i].event = "DepositEvent")
              => last'.op = "deposit" /\ last'.result = "Ok" ]_vars

\* the second deposit has succeeded and its event carries leaf index 1, a
\* commitment and a root that differ
C16_Witness ==
    /\ last.op = "deposit" /\ last.result = "Ok"
    /\ Len(last.events) = 1
    /\ last.events[1].leaf_index = 1
    /\ last.events[1].commitment = last.args.commitment
    /\ last.events[1].new_root = last.args.new_root
    /\ last.args.commitment # last.args.new_root
    /\ pool.next_leaf_index = 2

----------------------------------------------------------------------------
NullifierSetIsFull == Len(nullifier_set.nullifiers) = NULLIFIER_CAPACITY

\* C17: once the nullifier set is at capacity no withdraw succeeds any
\* more: one that passes the four checks and the verifier fails with
\* NullifierSetFull at the marking step and moves no funds; the set never
\* shrinks, so this lasts; deposits go on as before.
C17_FullSetHaltsWithdrawals ==
    [][ /\ (WithdrawRuns /\ NullifierSetIsFull) =>
              LET w == last'.args
              IN  /\ last'.result # "Ok"
                  /\ last'.events = <<>>
                  /\ AccountsUnchanged
                  /\ ( /\ NullifierUnused(w) /\ RootKnown(w)
                       /\ RecipientMatches(w) /\ VaultCovers(w)
                       /\ w.proof_accepted )
                        => /\ last'.result = "NullifierSetFull"
                           /\ last'.verifier_invoked
        /\ Len(nullifier_set'.nullifiers) >= Len(nullifier_set.nullifiers)
        /\ NullifierSetIsFull => nullifier_set' = nullifier_set
        /\ (DepositRuns /\ NullifierSetIsFull) =>
              (last'.result = "Ok" <=>
                 /\ pool.next_leaf_index < MAX_LEAVES
                 /\ last'.args.amount >= MIN_DEPOSIT_AMOUNT
                 /\ lamports[last'.args.depositor] >= last'.args.amount)
      ]_vars

\* with the set full, a withdraw that had everything in order and a proof
\* the verifier accepted has failed with NullifierSetFull
C17_Witness ==
    /\ NullifierSetIsFull
    /\ last.op = "withdraw" /\ last.result = "NullifierSetFull"
    /\ last.verifier_invoked /\ last.args.proof_accepted
    /\ last.args.transfer_accepted
    /\ NullifierUnused(last.args) /\ RootKnown(last.args)
    /\ RecipientMatches(last.args) /\ last.args.recipient_account # VAULT
    /\ last.args.amount > 0 /\ VaultCovers(last.args)

----------------------------------------------------------------------------
\* C18: initialize succeeds at most once: it creates the Pool with
\* next_leaf_index, total_deposits and current_root_index 0 and roots[0] the
\* empty-tree root, and an empty NullifierSet bound to the pool; every later
\* initialize fails and resets neither the counters nor the root history
\* nor the nullifier set.
C18_InitializeOnce ==
    [][ /\ (last = Idle /\ last'.op = "initialize") =>
              IF ~initialized
              THEN /\ last'.result = "Ok"
                   /\ pool' = [ authority          |-> last'.args.depositor,
                                next_leaf_index    |-> 0,
                                total_deposits     |-> 0,
                                current_root_index |-> 0,
                                roots |-> [ZeroPool.roots EXCEPT
                                             ![0] = EMPTY_ROOT] ]
                   /\ nullifier_set' = [ pool |-> "pool",
                                         nullifiers |-> <<>> ]
                   /\ lamports' = lamports
                   /\ initialized'
              ELSE /\ last'.result # "Ok"
                   /\ AccountsUnchanged
        /\ initialized => initialized' ]_vars

\* an initialize sent after deposits and a withdrawal has failed, and the
\* counters, the roots and the used nullifier are still there
C18_Witness ==
    /\ last.op = "initialize" /\ last.result = "AccountAlreadyInUse"
    /\ pool.next_leaf_index = ROOT_HISTORY_SIZE
    /\ pool.total_deposits = ROOT_HISTORY_SIZE
    /\ pool.roots[0] # EMPTY_ROOT
    /\ nullifier_set.nullifiers # <<>>

----------------------------------------------------------------------------
\* C19: a withdraw that supplies a verifier program other than
\* SUNSPOT_VERIFIER_ID, the always-accepting mock verifier for one, fails
\* with InvalidVerifier, does not invoke that program and changes no state;
\* the only program ever invoked to judge a proof is the one at
\* SUNSPOT_VERIFIER_ID.
C19_OnlyTheFixedVerifier ==
    [][ (last = Idle /\ initialized /\ last'.op = "withdraw") =>
          /\ last'.args.verifier_program # SUNSPOT_VERIFIER_ID
                => /\ last'.result = "InvalidVerifier"
                   /\ ~last'.verifier_invoked
                   /\ last'.events = <<>>
                   /\ AccountsUnchanged
          /\ last'.verifier_invoked
                => last'.args.verifier_program = SUNSPOT_VERIFIER_ID ]_vars

\* a withdraw that named the mock verifier and had everything else in
\* order has failed with InvalidVerifier
C19_Witness ==
    /\ last.op = "withdraw" /\ last.result = "InvalidVerifier"
    /\ last.args.verifier_program = MOCK_VERIFIER_ID
    /\ ~last.verifier_invoked
    /\ NullifierUnused(last.args) /\ RootKnown(last.args)
    /\ RecipientMatches(last.args) /\ last.args.recipient_account # VAULT
    /\ last.args.amount > 0 /\ VaultCovers(last.args)
    /\ ~NullifierSetIsFull

----------------------------------------------------------------------------
\* C20: a withdraw, successful or not, leaves every field of the Pool as it
\* was, so that no root becomes known or unknown by it; a deposit,
\* successful or not, leaves the nullifier set as it was; neither changes
\* the pool's authority.
C20_WithdrawAndDepositFrames ==
    [][ /\ (last = Idle /\ last'.op = "withdraw")
              => /\ pool' = pool
                 /\ KnownRoots' = KnownRoots
        /\ (last = Idle /\ last'.op = "deposit")
              => /\ nullifier_set' = nullifier_set
                 /\ pool'.authority = pool.authority ]_vars

\* a withdraw has succeeded on a pool that has taken deposits and has an
\* authority
C20_Witness ==
    /\ last.op = "withdraw" /\ last.result = "Ok" /\ last.args.amount > 0
    /\ pool.authority \in Users
    /\ pool.total_deposits > 0
    /\ pool.next_leaf_index = pool.total_deposits
    /\ last.args.root \in KnownRoots
    /\ last.args.nullifier_hash \in NullifierValues

----------------------------------------------------------------------------
Min(x, y) == IF x <= y THEN x ELSE y

\* C21: on an initialized pool total_deposits = next_leaf_index = the
\* number of deposits that have succeeded, current_root_index =
\* next_leaf_index mod ROOT_HISTORY_SIZE, and current_root_index <
\* ROOT_HISTORY_SIZE.
C21_CountersAgree ==
    [][ /\ initialized' =>
              /\ pool'.total_deposits = pool'.next_leaf_index
              /\ pool'.current_root_index =
                     pool'.next_leaf_index % ROOT_HISTORY_SIZE
              /\ pool'.current_root_index \in RootSlots
              /\ Len(recent_roots') =
                     Min(pool'.next_leaf_index, ROOT_HISTORY_SIZE + 1)
        /\ IF last = Idle /\ last'.op = "deposit" /\ last'.result = "Ok"
           THEN /\ pool'.total_deposits = pool.total_deposits + 1
                /\ pool'.next_leaf_index = pool.next_leaf_index + 1
           ELSE /\ pool'.total_deposits = pool.total_deposits
                /\ pool'.next_leaf_index = pool.next_leaf_index ]_vars

\* three deposits have succeeded, the last just now, and the write index
\* has wrapped round to slot 0 and moved on
C21_Witness ==
    /\ initialized
    /\ last.op = "deposit" /\ last.result = "Ok"
    /\ Len(recent_roots) = ROOT_HISTORY_SIZE + 1
    /\ pool.total_deposits = ROOT_HISTORY_SIZE + 1
    /\ pool.next_leaf_index = ROOT_HISTORY_SIZE + 1
    /\ pool.current_root_index = 1
    /\ pool.roots[1] = last.args.new_root

----------------------------------------------------------------------------
\* what the step adds to the sum of the amounts of the successful deposits
\* minus the sum of the amounts of the successful withdrawals
NetFlow ==
    IF last'.result # "Ok" THEN 0
    ELSE IF last'.op = "deposit" THEN last'.args.amount
    ELSE IF last'.op = "withdraw" THEN 0 - last'.args.amount
    ELSE 0

\* C22: the vault balance is its balance at initialization plus the
\* amounts of all successful deposits minus the amounts of all successful
\* withdrawals (every step changes it by exactly what the step adds to
\* that sum), and it is never negative; a withdraw of more than the vault
\* holds, the earlier checks passing, fails with InsufficientVaultBalance
\* and moves nothing.
C22_VaultConservation ==
    [][ /\ lamports'[VAULT] = lamports[VAULT] + NetFlow
        /\ lamports'[VAULT] >= 0
        /\ ( /\ WithdrawRuns
             /\ NullifierUnused(last'.args) /\ RootKnown(last'.args)
             /\ RecipientMatches(last'.args)
             /\ last'.args.amount > lamports[VAULT] )
              => /\ last'.result = "InsufficientVaultBalance"
                 /\ AccountsUnchanged ]_vars

====
